---- MODULE Spec2Model ----
(***************************************************************************)
(* AstraDBDeleteComponent (astra_delete_record.py): a flow component that  *)
(* searches an Astra DB collection, converts the hits to Data records,     *)
(* builds a delete filter, calls delete_many and returns the first five    *)
(* records, or one failure record when anything raises.                    *)
(*                                                                         *)
(* Three specifications share the variables:                               *)
(*   Spec      delete_records invoked repeatedly on one component instance *)
(*   SpecRace  the same, with other writers upserting and removing records *)
(*             of the collection at any moment                             *)
(*   SpecConv  __from_document applied to documents drawn from a bounded   *)
(*             set                                                         *)
(***************************************************************************)
EXTENDS Integers, Sequences, FiniteSets, TLC

VARIABLES
    client,                  \* self.client: None or the AstraDB handle
    created,                 \* number of AstraDB handles constructed so far
    advanced_search_filter,  \* self.advanced_search_filter (configuration)
    collection,              \* the store: identifier -> version held (0: absent)
    issued,                  \* the store: identifier -> versions written so far
    pc,                      \* position inside delete_records / conversion
    documents,               \* local `documents` of delete_records (list[Data])
    found,                   \* the <<identifier, version>> of every search hit
    searchDone,              \* search_documents has returned in this invocation
    ctorCalled,              \* initialize_client was called in this invocation
    deleteCalls,             \* the filters delete_many was called with
    removed,                 \* <<identifier, version>> removed by this delete_many
    result,                  \* local `result`: the response of delete_many
    raisedExc,               \* the exception caught by `except Exception as e`
    ret,                     \* the value delete_records returned
    document,                \* the Document __from_document works on
    source,                  \* that Document as it was before the conversion
    record                   \* the Data __from_document returned

vars == <<client, created, advanced_search_filter, collection, issued, pc,
          documents, found, searchDone, ctorCalled, deleteCalls, removed,
          result, raisedExc, ret, document, source, record>>

(***************************************************************************)
(* Bounds of the model.                                                    *)
(***************************************************************************)
NumDocs == 6        \* identifiers 1..NumDocs in the collection of Spec
MaxFreeOrder == 3   \* hit lists up to this length come in any order
MaxClients == 2     \* AstraDB handles that can ever be constructed
NumRaceIds == 2     \* identifiers 1..NumRaceIds in the collection of SpecRace
MaxVersion == 2     \* versions a writer can give one identifier
MaxValue == 1       \* field values 0..MaxValue of the documents of SpecConv

(***************************************************************************)
(* Program constants.                                                      *)
(***************************************************************************)
ReturnLimit == 5    \* documents[:5]

None == [none |-> TRUE]

Min(a, b) == IF a < b THEN a ELSE b

Range(s) == {s[i] : i \in DOMAIN s}

\* Python truthiness of a value that is None or a dict: `if x:` / `if not x:`
Truthy(v) == v # None /\ DOMAIN v # {}

\* d[k] = v on a Python dict
Put(d, k, v) == [x \in (DOMAIN d) \cup {k} |-> IF x = k THEN v ELSE d[x]]

\* s[:n] on a Python list, n >= 0
PySlice(s, n) == [i \in 1..Min(n, Len(s)) |-> s[i]]

\* Data(data=..., text_key=...)
Data(data, text_key) == [data |-> data, text_key |-> text_key]

\* doc.id on a Data: attribute access falls through to doc.data["id"]
DataId(doc) == doc.data["id"]

(***************************************************************************)
(* __from_document: `data` IS document.metadata (no copy), so the two      *)
(* item assignments write into the document's own mapping.                 *)
(***************************************************************************)
from_document_keeps_text(doc) ==
    LET data0 == doc.metadata
        data1 == IF "text" \in DOMAIN data0 THEN data0
                 ELSE Put(data0, "text", doc.page_content)
        data2 == Put(data1, "id", doc.id)
    IN  [record |-> Data(data2, "text"),
         document |-> [doc EXCEPT !.metadata = data2]]

from_document(doc) ==
    LET data0 == doc.metadata
        data1 == Put(data0, "text", doc.page_content)
        data2 == Put(data1, "id", doc.id)
    IN  [record |-> Data(data2, "text"),
         document |-> [doc EXCEPT !.metadata = data2]]

\* __docs_to_data
docs_to_data(docs) == [i \in 1..Len(docs) |-> from_document(docs[i]).record]

(***************************************************************************)
(* __build_filter                                                          *)
(***************************************************************************)
IdFilter(ids) == "_id" :> ("$in" :> ids)

build_filter_ids_only(adv, docs) ==
    IdFilter([i \in 1..Len(docs) |-> DataId(docs[i])])

build_filter_reversed(adv, docs) ==
    IF Truthy(adv) THEN adv
    ELSE IdFilter([i \in 1..Len(docs) |-> DataId(docs[Len(docs) + 1 - i])])

build_filter_match_all(adv, docs) ==
    IF Truthy(adv) THEN adv ELSE << >>

build_filter(adv, docs) ==
    IF Truthy(adv) THEN adv
    ELSE IdFilter([i \in 1..Len(docs) |-> DataId(docs[i])])

(***************************************************************************)
(* __create_result_dict and the handler's message                          *)
(***************************************************************************)
create_result_dict_success(deleted_count, success, message, dataframe) ==
    << Data([deleted_count |-> deleted_count, success |-> TRUE,
             message |-> message, dataframe |-> dataframe], "message") >>

create_result_dict(deleted_count, success, message, dataframe) ==
    << Data([deleted_count |-> deleted_count, success |-> success,
             message |-> message, dataframe |-> dataframe], "message") >>

\* Exception(msg) and f"Failed to delete records: {str(e)}"
Exception(msg) == [args |-> msg]

error_message(e) == <<"Failed to delete records: ", e.args>>

\* documents[:5]
ReturnValue_all(docs) == docs

ReturnValue(docs) == PySlice(docs, ReturnLimit)

\* `if not self.client:` before initialize_client
NeedsClient_always(c) == TRUE

NeedsClient(c) == c = None

\* AstraDB(token=..., api_endpoint=...): the n-th handle constructed
Handle(n) == [handle |-> n]

\* `except Exception`: the exceptions the calls of the try block raise
Exceptions ==
    {Exception(m) : m \in {"AstraDB() raised", "Failed to initialize AstraDB client",
                           "collection() raised", "Collection not found",
                           "search raised", "delete_many raised", "log raised"}}

Caught(e) == e \in Exceptions

(***************************************************************************)
(* The store and the inherited search.                                     *)
(***************************************************************************)
StoredMeta(id, ver) ==
    LET kind == "kind" :> ((id + ver) % 2)
    IN  IF id % 3 = 0 THEN kind @@ ("text" :> 0)
        ELSE IF id % 3 = 2 THEN kind @@ ("id" :> 0)
        ELSE kind

\* The Document a search returns for the stored record <<id, ver>>
StoredDoc(r) ==
    [id |-> r[1], page_content |-> 10 * r[1] + r[2],
     metadata |-> StoredMeta(r[1], r[2])]

\* Whether a stored record satisfies a delete/search filter
Matches(filter, r) ==
    IF "_id" \in DOMAIN filter
    THEN \E i \in DOMAIN filter["_id"]["$in"] : filter["_id"]["$in"][i] = r[1]
    ELSE \A k \in DOMAIN filter :
            /\ k \in DOMAIN StoredMeta(r[1], r[2])
            /\ StoredMeta(r[1], r[2])[k] = filter[k]

Present(coll) == {<<i, coll[i]>> : i \in {j \in DOMAIN coll : coll[j] # 0}}

InjectiveSeqs(S, n) ==
    {s \in UNION {[1..k -> S] : k \in 0..n} :
        \A i, j \in DOMAIN s : i # j => s[i] # s[j]}

RECURSIVE Ascending(_)
Ascending(S) ==
    IF S = {} THEN << >>
    ELSE LET m == CHOOSE x \in S : \A y \in S : x[1] <= y[1]
         IN  <<m>> \o Ascending(S \ {m})

Reverse(s) == [i \in 1..Len(s) |-> s[Len(s) + 1 - i]]

\* The hit lists a search can return: distinct stored records that satisfy
\* the configured filter, short lists in any order, longer ones by ascending
\* or descending identifier.
SearchResults(coll, adv) ==
    LET C == {r \in Present(coll) : Truthy(adv) => Matches(adv, r)}
    IN  InjectiveSeqs(C, MaxFreeOrder)
          \cup {Ascending(S) : S \in SUBSET C}
          \cup {Reverse(Ascending(S)) : S \in SUBSET C}

AdvFilters == {None, << >>, "kind" :> 0, "kind" :> 1}

(***************************************************************************)
(* delete_records, one action per external call of the try block.          *)
(***************************************************************************)
confUnchanged == UNCHANGED <<document, source, record>>

\* `except Exception as e`: build the failure record and return it
Fail(e) ==
    /\ raisedExc' = e
    /\ IF Caught(e)
       THEN /\ ret' = create_result_dict(0, FALSE, error_message(e), None)
            /\ pc' = "done"
       ELSE /\ ret' = ret
            /\ pc' = "propagated"

\* The engine sets the configuration and calls delete_records
Invoke ==
    /\ pc \in {"idle", "done"}
    /\ \E adv \in AdvFilters : advanced_search_filter' = adv
    /\ pc' = "client"
    /\ documents' = << >>
    /\ found' = << >>
    /\ searchDone' = FALSE
    /\ ctorCalled' = FALSE
    /\ deleteCalls' = << >>
    /\ removed' = {}
    /\ result' = None
    /\ raisedExc' = None
    /\ ret' = << >>
    /\ UNCHANGED <<client, created, collection, issued>>
    /\ confUnchanged

\* if not self.client: self.initialize_client(...)
\* if not self.client: raise Exception("Failed to initialize AstraDB client")
EnsureClient ==
    /\ pc = "client"
    /\ IF NeedsClient(client)
       THEN /\ ctorCalled' = TRUE
            /\ \/ /\ created < MaxClients
                  /\ client' = Handle(created + 1)
                  /\ created' = created + 1
                  /\ pc' = "lookup"
                  /\ UNCHANGED <<raisedExc, ret>>
               \/ /\ Fail(Exception("AstraDB() raised"))
                  /\ UNCHANGED <<client, created>>
               \/ /\ client = None
                  /\ Fail(Exception("Failed to initialize AstraDB client"))
                  /\ UNCHANGED <<client, created>>
       ELSE /\ pc' = "lookup"
            /\ UNCHANGED <<client, created, ctorCalled, raisedExc, ret>>
    /\ UNCHANGED <<advanced_search_filter, collection, issued, documents, found,
                   searchDone, deleteCalls, removed, result>>
    /\ confUnchanged

\* collection = self.client.collection(self.collection_name)
\* if not collection: raise Exception(...)
LookupCollection ==
    /\ pc = "lookup"
    /\ \/ /\ pc' = "search"
          /\ UNCHANGED <<raisedExc, ret>>
       \/ Fail(Exception("Collection not found"))
       \/ Fail(Exception("collection() raised"))
    /\ UNCHANGED <<client, created, advanced_search_filter, collection, issued,
                   documents, found, searchDone, ctorCalled, deleteCalls,
                   removed, result>>
    /\ confUnchanged

\* documents = self.search_documents()
SearchDocuments ==
    /\ pc = "search"
    /\ \/ \E hits \in SearchResults(collection, advanced_search_filter) :
            /\ found' = hits
            /\ documents' = docs_to_data([i \in 1..Len(hits) |-> StoredDoc(hits[i])])
            /\ searchDone' = TRUE
            /\ pc' = "delete"
            /\ UNCHANGED <<raisedExc, ret>>
       \/ /\ Fail(Exception("search raised"))
          /\ UNCHANGED <<found, documents, searchDone>>
    /\ UNCHANGED <<client, created, advanced_search_filter, collection, issued,
                   ctorCalled, deleteCalls, removed, result>>
    /\ confUnchanged

\* result = collection.delete_many(self.__build_filter(documents))
DeleteMany ==
    /\ pc = "delete"
    /\ LET filter == build_filter(advanced_search_filter, documents)
           gone == {r \in Present(collection) : Matches(filter, r)}
       IN  /\ deleteCalls' = Append(deleteCalls, filter)
           /\ \/ /\ removed' = gone
                 /\ collection' = [i \in DOMAIN collection |->
                                     IF <<i, collection[i]>> \in gone THEN 0
                                     ELSE collection[i]]
                 /\ result' = [status |-> [deletedCount |-> Cardinality(gone)]]
                 /\ pc' = "log"
                 /\ UNCHANGED <<raisedExc, ret>>
              \/ /\ Fail(Exception("delete_many raised"))
                 /\ UNCHANGED <<removed, collection, result>>
    /\ UNCHANGED <<client, created, advanced_search_filter, issued, documents,
                   found, searchDone, ctorCalled>>
    /\ confUnchanged

\* self.log(f"Deleted {result['status']['deletedCount']} records")
\* return documents[:5]
LogAndReturn ==
    /\ pc = "log"
    /\ \/ /\ ret' = ReturnValue(documents)
          /\ pc' = "done"
          /\ UNCHANGED raisedExc
       \/ Fail(Exception("log raised"))
    /\ UNCHANGED <<client, created, advanced_search_filter, collection, issued,
                   documents, found, searchDone, ctorCalled, deleteCalls,
                   removed, result>>
    /\ confUnchanged

(***************************************************************************)
(* Other writers of the collection (SpecRace).                             *)
(***************************************************************************)
runUnchanged ==
    UNCHANGED <<client, created, advanced_search_filter, pc, documents, found,
                searchDone, ctorCalled, deleteCalls, removed, result,
                raisedExc, ret>>

\* Another writer inserts, or replaces, the record of one identifier
WriterUpsert ==
    /\ \E i \in DOMAIN collection :
          /\ issued[i] < MaxVersion
          /\ issued' = [issued EXCEPT ![i] = issued[i] + 1]
          /\ collection' = [collection EXCEPT ![i] = issued[i] + 1]
    /\ runUnchanged
    /\ confUnchanged

\* Another writer removes a record
WriterRemove ==
    /\ \E i \in DOMAIN collection :
          /\ collection[i] # 0
          /\ collection' = [collection EXCEPT ![i] = 0]
    /\ UNCHANGED issued
    /\ runUnchanged
    /\ confUnchanged

(***************************************************************************)
(* __from_document on its own (SpecConv).                                  *)
(***************************************************************************)
Values == 0..MaxValue

MetaKeys == {"text", "id", "source"}

ConvDocs ==
    [id : Values, page_content : Values,
     metadata : UNION {[K -> Values] : K \in SUBSET MetaKeys}]

FromDocument ==
    /\ pc = "document"
    /\ record' = from_document(document).record
    /\ document' = from_document(document).document
    /\ pc' = "converted"
    /\ UNCHANGED source
    /\ UNCHANGED <<client, created, advanced_search_filter, collection, issued,
                   documents, found, searchDone, ctorCalled, deleteCalls,
                   removed, result, raisedExc, ret>>

\* The next search hit to convert
NextDocument ==
    /\ pc = "converted"
    /\ \E d \in ConvDocs :
          /\ document' = d
          /\ source' = d
    /\ record' = None
    /\ pc' = "document"
    /\ UNCHANGED <<client, created, advanced_search_filter, collection, issued,
                   documents, found, searchDone, ctorCalled, deleteCalls,
                   removed, result, raisedExc, ret>>

(***************************************************************************)
(* Initial states and specifications.                                      *)
(***************************************************************************)
InitRun ==
    /\ client = None
    /\ created = 0
    /\ advanced_search_filter = None
    /\ documents = << >>
    /\ found = << >>
    /\ searchDone = FALSE
    /\ ctorCalled = FALSE
    /\ deleteCalls = << >>
    /\ removed = {}
    /\ result = None
    /\ raisedExc = None
    /\ ret = << >>

Init ==
    /\ InitRun
    /\ pc = "idle"
    /\ collection = [i \in 1..NumDocs |-> 1]
    /\ issued = [i \in 1..NumDocs |-> 1]
    /\ document = StoredDoc(<<1, 1>>)
    /\ source = document
    /\ record = None

InitRace ==
    /\ InitRun
    /\ pc = "idle"
    /\ collection = [i \in 1..NumRaceIds |-> 1]
    /\ issued = [i \in 1..NumRaceIds |-> 1]
    /\ document = StoredDoc(<<1, 1>>)
    /\ source = document
    /\ record = None

InitConv ==
    /\ InitRun
    /\ pc = "document"
    /\ collection = [i \in 1..NumDocs |-> 1]
    /\ issued = [i \in 1..NumDocs |-> 1]
    /\ document \in ConvDocs
    /\ source = document
    /\ record = None

Next ==
    \/ Invoke
    \/ EnsureClient
    \/ LookupCollection
    \/ SearchDocuments
    \/ DeleteMany
    \/ LogAndReturn

NextRace ==
    \/ Next
    \/ WriterUpsert
    \/ WriterRemove

NextConv ==
    \/ FromDocument
    \/ NextDocument

Spec == Init /\ [][Next]_vars

SpecRace == InitRace /\ [][NextRace]_vars

SpecConv == InitConv /\ [][NextConv]_vars

(***************************************************************************)
(* Properties.                                                             *)
(***************************************************************************)
\* delete_records returned without an exception having been caught
Success == pc = "done" /\ raisedExc = None

\* The search has returned and the delete step has been taken
PastDelete == searchDone /\ pc # "delete"

FoundIds == [i \in 1..Len(found) |-> found[i][1]]

FailureKeys == {"deleted_count", "success", "message", "dataframe"}

\* C1: with a configured (truthy) advanced filter, once the search has
\* returned, delete_many is called exactly once, with exactly that filter,
\* whatever the search returned.
C1_AdvancedFilterVerbatim ==
    (PastDelete /\ Truthy(advanced_search_filter))
        => deleteCalls = <<advanced_search_filter>>

C1_Witness ==
    /\ pc = "log"
    /\ Truthy(advanced_search_filter)
    /\ found = << >>
    /\ deleteCalls = <<advanced_search_filter>>

\* C2: with no advanced filter (None or empty), delete_many is called with
\* {"_id": {"$in": [i1..iN]}}, the identifiers of the search hits, one per
\* hit and in search order, for every N >= 0.
C2_IdentifierFilter ==
    (PastDelete /\ ~Truthy(advanced_search_filter))
        => deleteCalls = <<IdFilter(FoundIds)>>

C2_Witness ==
    /\ pc = "log"
    /\ ~Truthy(advanced_search_filter)
    /\ Len(found) = 2
    /\ found[1][1] > found[2][1]
    /\ "id" \in DOMAIN StoredMeta(found[1][1], found[1][2])
    /\ deleteCalls = <<IdFilter(<<found[1][1], found[2][1]>>)>>

C4_FailureRecord ==
    /\ pc # "propagated"
    /\ raisedExc # None =>
          /\ pc = "done"
          /\ Len(ret) = 1
          /\ DOMAIN ret[1].data = FailureKeys
          /\ ret[1].data["deleted_count"] = 0
          /\ ret[1].data["success"] = FALSE
          /\ ret[1].text_key = "message"

C4_Witness ==
    /\ pc = "done"
    /\ raisedExc = Exception("Collection not found")
    /\ client # None
    /\ Len(ret) = 1

\* C5: on success every returned record is a document that the delete call
\* of this invocation removed from the collection.
C5_ReturnedWereDeleted ==
    Success => \A i \in 1..Len(ret) : found[i] \in removed

\* C6: the converted record's keys are the document's metadata keys plus
\* "text" and "id"; "text" holds the page content, "id" the identifier, and
\* every other metadata value is preserved.
C6_ConversionKeys ==
    pc = "converted" =>
        /\ DOMAIN record.data = (DOMAIN source.metadata) \cup {"text", "id"}
        /\ record.data["text"] = source.page_content
        /\ record.data["id"] = source.id
        /\ \A k \in (DOMAIN source.metadata) \ {"text", "id"} :
              record.data[k] = source.metadata[k]
        /\ record.text_key = "text"

C6_Witness ==
    /\ pc = "converted"
    /\ "text" \in DOMAIN source.metadata
    /\ source.metadata["text"] # source.page_content
    /\ "source" \in DOMAIN source.metadata
    /\ record.data["text"] = source.page_content

\* C7: converting a document leaves the document's own metadata mapping
\* unchanged.
C7_SourceMetadataUnchanged ==
    pc = "converted" => document.metadata = source.metadata

\* C8: a client handle is constructed only when none exists: an existing
\* handle is never replaced, initialize_client is called in an invocation
\* exactly when the handle is absent, and a failed construction leaves the
\* handle absent.
C8_ClientConstructedOnce ==
    [][/\ client # None => client' = client
       /\ pc = "client" => (ctorCalled' <=> client = None)
       /\ (pc = "client" /\ pc' = "done") => client' = None]_vars

C8_Witness ==
    /\ pc = "lookup"
    /\ client # None
    /\ ~ctorCalled

\* C9: whenever delete_records returns the failure record, the delete call
\* of that invocation has removed no record.
C9_FailureMeansNothingDeleted ==
    (pc = "done" /\ raisedExc # None) => removed = {}

\* C10 (as stated): with no advanced filter, the records removed are among
\* the records the search returned, delete_many is called at most once and
\* only after the search has returned.
C10_RemovedAreSearchResults ==
    ~Truthy(advanced_search_filter) =>
        /\ removed \subseteq Range(found)
        /\ Len(deleteCalls) <= 1
        /\ deleteCalls # << >> => searchDone

\* C10 (amended): with no advanced filter, the identifiers of the records
\* removed are among the identifiers the search returned, delete_many is
\* called at most once and only after the search has returned.
C10_RemovedIdsAreSearchIds ==
    ~Truthy(advanced_search_filter) =>
        /\ {r[1] : r \in removed} \subseteq Range(FoundIds)
        /\ Len(deleteCalls) <= 1
        /\ deleteCalls # << >> => searchDone

C10_Witness ==
    /\ pc = "log"
    /\ ~Truthy(advanced_search_filter)
    /\ \E r \in removed : r \notin Range(found)
    /\ \E i \in DOMAIN collection : collection[i] # 0 /\ i \notin Range(FoundIds)

====
